---- MODULE Spec2Model ----
(***************************************************************************)
(* A model of the n-gram language model (ngram_lm.py) and of the language  *)
(* identifier of the translator bot (translator_bot.py).                   *)
(*                                                                         *)
(* Utterances are sequences of one-character strings; a token is a string  *)
(* (one character after list(utterance), possibly "" after str.split).     *)
(* Python floats are modelled as exact fractions [num, den]; the value     *)
(* None is the record None; exceptions are outcomes whose kind is the      *)
(* exception's name.                                                       *)
(***************************************************************************)
EXTENDS Integers, Sequences, FiniteSets, TLC

\* ------------------------------------------------------------------------
\* Bounds of the model
\* ------------------------------------------------------------------------
MaxNgramSize == 3
MaxEstimates == 2

\* ------------------------------------------------------------------------
\* Python values
\* ------------------------------------------------------------------------
None == [none |-> TRUE]

Str(s) == [str |-> s]

Rat(n, d) == [num |-> n, den |-> d]

RECURSIVE Gcd(_, _)
Gcd(a, b) == IF b = 0 THEN a ELSE Gcd(b, a % b)

\* a fraction in lowest terms (den > 0)
Norm(r) == LET g == Gcd(r.num, r.den) IN Rat(r.num \div g, r.den \div g)

IntTimes(k, r) == Norm(Rat(k * r.num, r.den))

IntPlus(k, r) == Norm(Rat(k * r.den + r.num, r.den))

IsZero(r) == r.num = 0

\* a / b for b # 0
Quotient(a, b) == Norm(Rat(a.num * b.den, a.den * b.num))

RatPlus(a, b) == Norm(Rat(a.num * b.den + b.num * a.den, a.den * b.den))

Positive(r) == r.num > 0 /\ r.den > 0

One == Rat(1, 1)

\* ------------------------------------------------------------------------
\* Outcomes of a call: a returned value or a raised exception
\* ------------------------------------------------------------------------
Returned(kind, value) == [kind |-> kind, value |-> value]

Raised(exception) == [kind |-> exception, value |-> <<>>]

NoCall == [kind |-> "none", value |-> <<>>]

\* ------------------------------------------------------------------------
\* NGramLanguageModel
\* ------------------------------------------------------------------------
EmptyDict == << >>

DefaultSmooth == Rat(1, 1000)

\* __init__
NGramLanguageModel(language, pad_utterances, ngram_size, smooth) ==
    [language |-> language,
     pad_utterances |-> pad_utterances,
     ngram_size |-> ngram_size,
     smooth |-> smooth,
     ngram_counter |-> EmptyDict,
     denominator_smoother |-> None]

\* NGramLanguageModel() with the default arguments
DefaultModel == NGramLanguageModel(None, TRUE, 3, DefaultSmooth)

Repeat(token, k) == [i \in 1..k |-> token]

\* a slip in the shifts: range(number_of_shifts + 1)
AdvanceOnceMore(seq, k) == SubSeq(seq, k + 2, Len(seq))

\* an iterator advanced by k calls of next(iterator, None)
Advance(seq, k) == SubSeq(seq, k + 1, Len(seq))

\* itertools.tee followed by the shifts: copy number k is advanced k - 1 times
Iterables(utterance, n) == [k \in 1..n |-> Advance(utterance, k - 1)]

SetMin(S) == CHOOSE x \in S : \A y \in S : x <= y

\* zip(*iterables): stops with the shortest iterable; zip() of nothing is empty
Zip(iterables) ==
    IF Len(iterables) = 0 THEN << >>
    ELSE LET shortest == SetMin({Len(iterables[k]) : k \in 1..Len(iterables)})
         IN [i \in 1..shortest |-> [k \in 1..Len(iterables) |-> iterables[k][i]]]

Padded(self, utterance) ==
    IF self.pad_utterances
    THEN Repeat("<", self.ngram_size - 1) \o utterance
             \o Repeat(">", self.ngram_size - 1)
    ELSE utterance

get_ngrams(self, utterance) ==
    Zip(Iterables(Padded(self, utterance), self.ngram_size))

\* str.strip() of a line of the corpus
IsSpace(ch) == ch = " "

RECURSIVE LStrip(_)
LStrip(s) == IF Len(s) > 0 /\ IsSpace(Head(s)) THEN LStrip(Tail(s)) ELSE s

RECURSIVE RStrip(_)
RStrip(s) ==
    IF Len(s) > 0 /\ IsSpace(s[Len(s)]) THEN RStrip(SubSeq(s, 1, Len(s) - 1)) ELSE s

Strip(s) == RStrip(LStrip(s))

\* *context_tokens, next_token = ngram
Context(ngram) == SubSeq(ngram, 1, Len(ngram) - 1)

NextToken(ngram) == ngram[Len(ngram)]

\* d.get(key, default)
Get(d, key, default) == IF key \in DOMAIN d THEN d[key] ELSE default

\* a slip in the count: "= 1" for "+= 1"
IncrementOverwrite(counter, context, next_token) ==
    LET next_tokens == Get(counter, context, EmptyDict)
        updated == [t \in DOMAIN next_tokens \cup {next_token} |->
                       IF t = next_token THEN 1 ELSE next_tokens[t]]
    IN [c \in DOMAIN counter \cup {context} |->
           IF c = context THEN updated ELSE counter[c]]

\* self.ngram_counter[context][next_token] += 1 on the nested defaultdict
Increment(counter, context, next_token) ==
    LET next_tokens == Get(counter, context, EmptyDict)
        count == Get(next_tokens, next_token, 0)
        updated == [t \in DOMAIN next_tokens \cup {next_token} |->
                       IF t = next_token THEN count + 1 ELSE next_tokens[t]]
    IN [c \in DOMAIN counter \cup {context} |->
           IF c = context THEN updated ELSE counter[c]]

\* the loop over the n-grams of one utterance, from the i-th on
RECURSIVE CountNgrams(_, _, _)
CountNgrams(acc, ngrams, i) ==
    IF i > Len(ngrams) THEN acc
    ELSE CountNgrams(
             [counter |-> Increment(acc.counter, Context(ngrams[i]), NextToken(ngrams[i])),
              vocabulary |-> acc.vocabulary \cup {NextToken(ngrams[i])}],
             ngrams, i + 1)

\* the loop over the lines of the file, from the i-th on
RECURSIVE CountLines(_, _, _, _)
CountLines(self, acc, sentences_file, i) ==
    IF i > Len(sentences_file) THEN acc
    ELSE CountLines(self,
                    CountNgrams(acc, get_ngrams(self, Strip(sentences_file[i])), 1),
                    sentences_file, i + 1)

estimate(self, sentences_file) ==
    LET done == CountLines(self,
                           [counter |-> self.ngram_counter, vocabulary |-> {}],
                           sentences_file, 1)
    IN [self EXCEPT !.ngram_counter = done.counter,
                    !.denominator_smoother =
                        IntTimes(Cardinality(done.vocabulary), self.smooth)]

\* a dict or False is false when it is empty; False is modelled by EmptyDict
Truthy(d) == DOMAIN d # {}

\* d.get(key, default): the value and the dictionary after the call
GetMethod(d, key, default) == [value |-> Get(d, key, default), dict |-> d]

\* d[key] for a key the defaultdict holds, or, for a missing key, the
\* default value, which the defaultdict then stores
GetItem(d, key) ==
    IF key \in DOMAIN d THEN [value |-> d[key], dict |-> d]
    ELSE [value |-> EmptyDict,
          dict |-> [c \in DOMAIN d \cup {key} |-> IF c = key THEN EmptyDict ELSE d[c]]]

\* sum(d.values())
RECURSIVE SumOver(_, _)
SumOver(d, keys) ==
    IF keys = {} THEN 0
    ELSE LET k == CHOOSE x \in keys : TRUE IN d[k] + SumOver(d, keys \ {k})

SumValues(d) == SumOver(d, DOMAIN d)

\* a / b on floats
Divide(a, b) ==
    IF a = None \/ b = None THEN Raised("TypeError")
    ELSE IF IsZero(b) THEN Raised("ZeroDivisionError")
    ELSE Returned("float", <<Quotient(a, b)>>)

\* a slip: the smooth value left out of the numerator
ngram_probability_unsmoothed(self, ngram) ==
    LET left_context == Context(ngram)
        next_token == NextToken(ngram)
        left_context_seen == GetMethod(self.ngram_counter, left_context, EmptyDict)
    IN IF ~Truthy(left_context_seen.value)
       THEN [ret |-> Divide(self.smooth, self.denominator_smoother),
             ngram_counter |-> left_context_seen.dict]
       ELSE LET item == GetItem(left_context_seen.dict, left_context)
                numerator == Rat(Get(item.value, next_token, 0), 1)
            IN [ret |-> IF self.denominator_smoother = None
                        THEN Raised("TypeError")
                        ELSE Divide(numerator,
                                    IntPlus(SumValues(left_context_seen.value),
                                            self.denominator_smoother)),
                ngram_counter |-> item.dict]

\* a slip: the context looked up with self.ngram_counter[left_context], which
\* makes the defaultdict store an entry for an unseen context
ngram_probability_indexing(self, ngram) ==
    LET left_context == Context(ngram)
        next_token == NextToken(ngram)
        left_context_seen == GetItem(self.ngram_counter, left_context)
    IN IF ~Truthy(left_context_seen.value)
       THEN [ret |-> Divide(self.smooth, self.denominator_smoother),
             ngram_counter |-> left_context_seen.dict]
       ELSE LET item == GetItem(left_context_seen.dict, left_context)
                numerator == IntPlus(Get(item.value, next_token, 0), self.smooth)
            IN [ret |-> IF self.denominator_smoother = None
                        THEN Raised("TypeError")
                        ELSE Divide(numerator,
                                    IntPlus(SumValues(left_context_seen.value),
                                            self.denominator_smoother)),
                ngram_counter |-> item.dict]

\* the outcome of the call and the count table after it
ngram_probability(self, ngram) ==
    LET left_context == Context(ngram)
        next_token == NextToken(ngram)
        left_context_seen == GetMethod(self.ngram_counter, left_context, EmptyDict)
    IN IF ~Truthy(left_context_seen.value)
       THEN [ret |-> Divide(self.smooth, self.denominator_smoother),
             ngram_counter |-> left_context_seen.dict]
       ELSE LET item == GetItem(left_context_seen.dict, left_context)
                numerator == IntPlus(Get(item.value, next_token, 0), self.smooth)
            IN [ret |-> IF self.denominator_smoother = None
                        THEN Raised("TypeError")
                        ELSE Divide(numerator,
                                    IntPlus(SumValues(left_context_seen.value),
                                            self.denominator_smoother)),
                ngram_counter |-> item.dict]

\* the list comprehension of assign_logprob, from the i-th n-gram on: it
\* stops at the first call that raises
RECURSIVE Probabilities(_, _, _, _)
Probabilities(self, ngrams, i, values) ==
    IF i > Len(ngrams)
    THEN [ret |-> Returned("float", values), ngram_counter |-> self.ngram_counter,
          calls |-> Len(ngrams)]
    ELSE LET p == ngram_probability(self, ngrams[i])
             after == [self EXCEPT !.ngram_counter = p.ngram_counter]
         IN IF p.ret.kind # "float"
            THEN [ret |-> p.ret, ngram_counter |-> p.ngram_counter, calls |-> i]
            ELSE Probabilities(after, ngrams, i + 1, values \o p.ret.value)

\* a slip: the check for an empty list of n-grams left out
assign_logprob_unguarded(self, utterance) ==
    Probabilities(self, get_ngrams(self, utterance), 1, << >>)

\* A returned score "float" stands for sum(log(values)) / len(values), kept
\* as the list of the n-gram probabilities it is computed from.
assign_logprob(self, utterance) ==
    LET ngrams_of_the_utterance == get_ngrams(self, utterance)
    IN IF Len(ngrams_of_the_utterance) = 0
       THEN [ret |-> Returned("False", << >>), ngram_counter |-> self.ngram_counter,
             calls |-> 0]
       ELSE Probabilities(self, ngrams_of_the_utterance, 1, << >>)

\* ------------------------------------------------------------------------
\* Persistence.  A document is the JSON object of save_model: `items` are
\* its context keys (strings, as sequences of characters) and `meta` its
\* metadata fields.  A key made of one-character tokens joined by spaces
\* never equals a metadata name, which is why the two can be kept apart.
\* ------------------------------------------------------------------------
MetaFields ==
    <<"language", "pad_utterances", "denominator_smoother", "smooth", "ngram_size">>

\* the characters of a token (a token holds at most one character)
CharsOf(token) == IF token = "" THEN << >> ELSE <<token>>

\* " ".join(ngram)
RECURSIVE Join(_)
Join(tokens) ==
    IF Len(tokens) = 0 THEN << >>
    ELSE IF Len(tokens) = 1 THEN CharsOf(tokens[1])
    ELSE CharsOf(tokens[1]) \o <<" ">> \o Join(Tail(tokens))

\* ngram.split(" "), from the i-th character on
RECURSIVE SplitFrom(_, _, _, _)
SplitFrom(s, i, piece, pieces) ==
    IF i > Len(s) THEN Append(pieces, piece)
    ELSE IF s[i] = " " THEN SplitFrom(s, i + 1, "", Append(pieces, piece))
    ELSE SplitFrom(s, i + 1, piece \o s[i], pieces)

Split(s) == SplitFrom(s, 1, "", << >>)

\* The document save_model writes.  shuffle decides which of two contexts
\* with the same key survives dict(model); contexts of one-character tokens
\* of one length never share a key.
save_model(self) ==
    LET keys == {Join(ngram) : ngram \in DOMAIN self.ngram_counter}
    IN [items |-> [k \in keys |->
                      self.ngram_counter[CHOOSE ngram \in DOMAIN self.ngram_counter :
                                             Join(ngram) = k]],
        meta |-> [language |-> self.language,
                  pad_utterances |-> self.pad_utterances,
                  denominator_smoother |-> self.denominator_smoother,
                  smooth |-> self.smooth,
                  ngram_size |-> self.ngram_size]]

\* self.<field> = model["<field>"] for the fields from the i-th on: the first
\* missing one raises KeyError and leaves the earlier assignments in place
RECURSIVE AssignFields(_, _, _)
AssignFields(self, document, i) ==
    IF i > Len(MetaFields) THEN [ret |-> Returned("None", << >>), self |-> self]
    ELSE IF MetaFields[i] \notin DOMAIN document.meta
    THEN [ret |-> Raised("KeyError"), self |-> self]
    ELSE AssignFields([self EXCEPT ![MetaFields[i]] = document.meta[MetaFields[i]]],
                      document, i + 1)

\* the outcome of the call and the model after it
load_model(self, document) ==
    LET assigned == AssignFields(self, document, 1)
        contexts == {Split(k) : k \in DOMAIN document.items}
    IN IF assigned.ret.kind = "KeyError" THEN assigned
       ELSE [ret |-> assigned.ret,
             self |-> [assigned.self EXCEPT !.ngram_counter =
                          [c \in contexts |->
                              document.items[CHOOSE k \in DOMAIN document.items :
                                                 Split(k) = c]]]]

\* the document without one key
Without(document, field) ==
    [document EXCEPT !.meta = [f \in DOMAIN document.meta \ {field} |-> document.meta[f]]]

\* ------------------------------------------------------------------------
\* TranslatorTwitterBot: the models it holds and language_identifier
\* ------------------------------------------------------------------------
\* len(self.languages)
NumberOfLanguages == 4

\* __init__: one default model per language, the i-th loaded from the i-th
\* file that glob found (zip stops with the shorter list)
TranslatorTwitterBot(trained_models) ==
    [i \in 1..NumberOfLanguages |->
        IF i <= Len(trained_models)
        THEN load_model(DefaultModel, trained_models[i]).self
        ELSE DefaultModel]

\* the order of Python on the language tags in use
TagOrder == <<"ar", "en", "ff", "fr">>

TagRank(language) == CHOOSE i \in 1..Len(TagOrder) : TagOrder[i] = language.str

RECURSIVE Pow(_, _)
Pow(x, k) == IF k = 0 THEN 1 ELSE x * Pow(x, k - 1)

RECURSIVE Product(_, _)
Product(values, i) ==
    IF i > Len(values) THEN One
    ELSE LET rest == Product(values, i + 1)
         IN Norm(Rat(values[i].num * rest.num, values[i].den * rest.den))

\* The number a score is: sum(log(values)) / len(values) is log(p) / n for
\* the product p of the n values, and False is 0 = log(1) / 1.
ScoreNumber(score) ==
    IF score.kind = "False" THEN [p |-> One, n |-> 1]
    ELSE [p |-> Product(score.value, 1), n |-> Len(score.value)]

\* log(a.p) / a.n < log(b.p) / b.n
ScoreLess(a, b) ==
    Pow(a.p.num, b.n) * Pow(b.p.den, a.n) < Pow(b.p.num, a.n) * Pow(a.p.den, b.n)

ScoreEqual(a, b) ==
    Pow(a.p.num, b.n) * Pow(b.p.den, a.n) = Pow(b.p.num, a.n) * Pow(a.p.den, b.n)

\* a slip: max(..., key=score), which keeps the first model of a tie
TupleGreaterByScore(item, best) ==
    Returned("bool", <<ScoreLess(ScoreNumber(best.score), ScoreNumber(item.score))>>)

\* item > best on the tuples (score, language): the first components that
\* differ decide, and None is not ordered against a string
TupleGreater(item, best) ==
    IF ~ScoreEqual(ScoreNumber(item.score), ScoreNumber(best.score))
    THEN Returned("bool", <<ScoreLess(ScoreNumber(best.score), ScoreNumber(item.score))>>)
    ELSE IF item.language = best.language THEN Returned("bool", <<FALSE>>)
    ELSE IF item.language = None \/ best.language = None THEN Raised("TypeError")
    ELSE Returned("bool", <<TagRank(item.language) > TagRank(best.language)>>)

\* max over the generator, from the i-th model on: each model is scored,
\* then compared with the greatest tuple so far
RECURSIVE MaxFrom(_, _, _, _)
MaxFrom(models, text, i, best) ==
    IF i > Len(models) THEN Returned("language", <<best.language>>)
    ELSE LET score == assign_logprob(models[i], text).ret
             item == [score |-> score, language |-> models[i].language]
         IN IF score.kind \notin {"float", "False"} THEN score
            ELSE IF i = 1 THEN MaxFrom(models, text, i + 1, item)
            ELSE LET greater == TupleGreater(item, best)
                 IN IF greater.kind # "bool" THEN greater
                    ELSE MaxFrom(models, text, i + 1,
                                 IF greater.value[1] THEN item ELSE best)

language_identifier(models, text) == MaxFrom(models, text, 1, None)

\* ------------------------------------------------------------------------
\* Inputs
\* ------------------------------------------------------------------------
Languages == {None, Str("ff")}

Smooths == {Rat(1, 1), Rat(1, 2)}

\* training files: their lines as read, before strip
RECURSIVE SeqsUpTo(_, _)
SeqsUpTo(S, n) ==
    IF n = 0 THEN {<< >>}
    ELSE LET shorter == SeqsUpTo(S, n - 1)
         IN shorter \cup {Append(s, x) : s \in shorter, x \in S}

TrainFiles ==
    { << >>,
      << << >> >>,
      << <<"a", "b">> >>,
      << <<"a", " ", "b">>, <<"b", "a", " ">> >>,
      << <<"b", "a", " ">>, <<"a", " ", "b">> >>,
      << <<"a">>, <<"a", "b">>, <<"a">> >> }

Utterances == {<< >>, <<"a">>, <<"a", "b">>, <<"a", " ", "b">>, <<"c", "a">>}

\* ------------------------------------------------------------------------
\* State
\* ------------------------------------------------------------------------
VARIABLES
    lm,            \* the model that is trained, saved and scored
    fresh,         \* a model constructed with the defaults, the target of load_model
    file,          \* the document save_model wrote, or None
    train_file,    \* the corpus of the last estimate call
    estimates,     \* the number of estimate calls on lm
    ngram_models,  \* the models the bot holds
    ret,           \* the last call: its name, receiver, argument and outcome
    mentions,      \* the mentions posted to the bot: id -> what the tweet holds
    pc,            \* where run_bot is: not called, creating the cursor,
                   \* iterating its items, or ended by an exception
    since_id,      \* the local since_id of run_bot
    already_replied_mentions,  \* the local set of run_bot
    items,         \* the mentions the cursor of this round has yet to give
    replies        \* id -> the number of reply_to_the_tweet calls for it

runvars == <<mentions, pc, since_id, already_replied_mentions, items, replies>>

modelvars == <<lm, fresh, file, train_file, estimates, ngram_models>>

vars == <<lm, fresh, file, train_file, estimates, ngram_models, ret,
          mentions, pc, since_id, already_replied_mentions, items, replies>>

Call(name, on, arg, outcome, calls) ==
    [call |-> name, on |-> on, arg |-> arg, outcome |-> outcome, calls |-> calls]

\* run_bot has not been called: its locals do not exist yet
NotRunning ==
    /\ mentions = << >>
    /\ pc = "constructed"
    /\ since_id = None
    /\ already_replied_mentions = None
    /\ items = {}
    /\ replies = << >>

Init ==
    /\ lm \in {NGramLanguageModel(language, pad_utterances, ngram_size, smooth) :
                  language \in Languages, pad_utterances \in BOOLEAN,
                  ngram_size \in 1..MaxNgramSize, smooth \in Smooths}
    /\ fresh = DefaultModel
    /\ file = None
    /\ train_file = << >>
    /\ estimates = 0
    /\ ngram_models = << >>
    /\ ret = Call("__init__", "lm", << >>, NoCall, 0)
    /\ NotRunning

Estimate(sentences_file) ==
    /\ estimates < MaxEstimates
    /\ lm' = estimate(lm, sentences_file)
    /\ train_file' = sentences_file
    /\ estimates' = estimates + 1
    /\ ret' = Call("estimate", "lm", << >>, Returned("None", << >>), 0)
    /\ UNCHANGED <<fresh, file, ngram_models>>
    /\ UNCHANGED runvars

AssignLogprobLm(utterance) ==
    LET r == assign_logprob(lm, utterance)
    IN /\ lm' = [lm EXCEPT !.ngram_counter = r.ngram_counter]
       /\ ret' = Call("assign_logprob", "lm", utterance, r.ret, r.calls)
       /\ UNCHANGED <<fresh, file, train_file, estimates, ngram_models>>
       /\ UNCHANGED runvars

AssignLogprobFresh(utterance) ==
    LET r == assign_logprob(fresh, utterance)
    IN /\ fresh' = [fresh EXCEPT !.ngram_counter = r.ngram_counter]
       /\ ret' = Call("assign_logprob", "fresh", utterance, r.ret, r.calls)
       /\ UNCHANGED <<lm, file, train_file, estimates, ngram_models>>
       /\ UNCHANGED runvars

\* main of ngram_lm.py: estimate once, then save_model
EstimateOnce(sentences_file) ==
    /\ estimates = 0
    /\ Estimate(sentences_file)

SaveModel ==
    /\ estimates > 0
    /\ file' = save_model(lm)
    /\ ret' = Call("save_model", "lm", << >>, Returned("None", << >>), 0)
    /\ UNCHANGED <<lm, fresh, train_file, estimates, ngram_models>>
    /\ UNCHANGED runvars

\* the documents a file may hold: the one saved, or it with a field missing
Documents ==
    IF file = None THEN {}
    ELSE {file} \cup {Without(file, MetaFields[i]) : i \in 1..Len(MetaFields)}

LoadModel(document) ==
    LET r == load_model(fresh, document)
    IN /\ file # None
       /\ fresh' = r.self
       /\ ret' = Call("load_model", "fresh", << >>, r.ret, 0)
       /\ UNCHANGED <<lm, file, train_file, estimates, ngram_models>>
       /\ UNCHANGED runvars

\* training and scoring one model
Next ==
    \/ \E sentences_file \in TrainFiles : Estimate(sentences_file)
    \/ \E utterance \in Utterances : AssignLogprobLm(utterance)

Spec == Init /\ [][Next]_vars

\* training a model, saving it, loading the file into another model, scoring
NextPersist ==
    \/ \E sentences_file \in TrainFiles : EstimateOnce(sentences_file)
    \/ SaveModel
    \/ \E document \in Documents : LoadModel(document)
    \/ \E utterance \in Utterances : AssignLogprobLm(utterance)
    \/ \E utterance \in Utterances : AssignLogprobFresh(utterance)

SpecPersist == Init /\ [][NextPersist]_vars

\* ------------------------------------------------------------------------
\* The bot: models loaded from the files of a folder, texts identified
\* ------------------------------------------------------------------------
MaxFiles == 4

\* the file that main of ngram_lm.py writes for a language and a corpus
TrainedFile(tag, pad_utterances, ngram_size, sentences_file) ==
    save_model(estimate(NGramLanguageModel(tag, pad_utterances, ngram_size, Rat(1, 1)),
                        sentences_file))

ModelFiles ==
    { TrainedFile(Str("en"), TRUE, 2, << <<"a", "b">> >>),
      TrainedFile(Str("fr"), TRUE, 2, << <<"a", "b">> >>),
      TrainedFile(Str("ar"), TRUE, 2, << <<"b", "a">> >>),
      TrainedFile(Str("ff"), FALSE, 1, << <<"a">>, <<"a", "b">>, <<"a">> >>),
      TrainedFile(None, TRUE, 2, << <<"a", "b">> >>),
      TrainedFile(Str("en"), FALSE, 2, << <<"b", "a">> >>) }

Texts == {<< >>, <<"a">>, <<"b">>, <<"a", "b">>, <<"c">>}

InitBot ==
    /\ ngram_models \in {TranslatorTwitterBot(trained_models) :
                            trained_models \in SeqsUpTo(ModelFiles, MaxFiles)}
    /\ lm = DefaultModel
    /\ fresh = DefaultModel
    /\ file = None
    /\ train_file = << >>
    /\ estimates = 0
    /\ ret = Call("__init__", "bot", << >>, NoCall, 0)
    /\ NotRunning

LanguageIdentifier(text) ==
    /\ ret' = Call("language_identifier", "bot", text,
                   language_identifier(ngram_models, text), 0)
    /\ ngram_models' =
           [i \in DOMAIN ngram_models |->
               [ngram_models[i] EXCEPT !.ngram_counter =
                    assign_logprob(ngram_models[i], text).ngram_counter]]
    /\ UNCHANGED <<lm, fresh, file, train_file, estimates>>
    /\ UNCHANGED runvars

NextBot == \E text \in Texts : LanguageIdentifier(text)

SpecBot == InitBot /\ [][NextBot]_vars

\* ------------------------------------------------------------------------
\* The bot: run_bot polling the mentions and replying
\* ------------------------------------------------------------------------
\* Tweet ids are written relative to 1585009197304803327, so that the
\* constant run_bot starts since_id from is 1.
MaxMentionId == 4

InitialSinceId == 1

MentionIds == 1..MaxMentionId

\* what run_bot reads of a mention: text, whether something remains of
\* full_text once the @names are removed and it is stripped; data, what
\* get_status_data gives for a mention with no such text: a dict, None (not
\* a reply, source tweet gone, the bot mentioning itself) or an exception
\* out of get_src_tgt_languages
Tweets ==
    {[text |-> FALSE, data |-> data] : data \in {"dict", "None", "raise"}}
        \cup {[text |-> TRUE, data |-> "None"]}

\* mentions_timeline with since_id: the mentions with a greater id, each
\* given once by the cursor
mentions_timeline(posted, since) == {id \in DOMAIN posted : id > since}

max_first(a, b) == a

max(a, b) == IF b > a THEN b ELSE a

condition_to_skeep_this_mention(mention_id, already_replied, mention) ==
    (mention_id \in already_replied) \/ mention.text

\* get_status_data: None for a mention with text, else what the tweet gives
get_status_data(status) == IF status.text THEN "None" ELSE status.data

Replies(id) == IF id \in DOMAIN replies THEN replies[id] ELSE 0

InitRun ==
    /\ ngram_models = TranslatorTwitterBot(<< >>)
    /\ lm = DefaultModel
    /\ fresh = DefaultModel
    /\ file = None
    /\ train_file = << >>
    /\ estimates = 0
    /\ ret = Call("__init__", "bot", << >>, NoCall, 0)
    /\ NotRunning

\* somebody mentions the bot
Post(id, tweet) ==
    /\ id \notin DOMAIN mentions
    /\ mentions' = [i \in DOMAIN mentions \cup {id} |->
                       IF i = id THEN tweet ELSE mentions[i]]
    /\ UNCHANGED <<pc, since_id, already_replied_mentions, items, replies, ret>>
    /\ UNCHANGED modelvars

\* run_bot up to its loop; get_already_replied_mentions gives the tweets the
\* bot replied to before and that can still be fetched
RunBot ==
    /\ pc = "constructed"
    /\ since_id' = InitialSinceId
    /\ already_replied_mentions' \in SUBSET (DOMAIN mentions)
    /\ pc' = "cursor"
    /\ ret' = Call("get_already_replied_mentions", "bot", << >>,
                   Returned("set", << >>), 0)
    /\ UNCHANGED <<mentions, items, replies>>
    /\ UNCHANGED modelvars

\* a round starts: the cursor is created with the since_id of this moment
MentionsTimeline ==
    /\ pc = "cursor"
    /\ items' = mentions_timeline(mentions, since_id)
    /\ pc' = "items"
    /\ ret' = Call("mentions_timeline", "bot", <<since_id>>,
                   Returned("Cursor", << >>), 0)
    /\ UNCHANGED <<mentions, since_id, already_replied_mentions, replies>>
    /\ UNCHANGED modelvars

\* the body of the for loop for the mention the cursor gives next
Mention(mention_id) ==
    /\ pc = "items"
    /\ mention_id \in items
    /\ items' = items \ {mention_id}
    /\ IF condition_to_skeep_this_mention(mention_id, already_replied_mentions,
                                          mentions[mention_id])
       THEN /\ ret' = Call("run_bot", "bot", <<mention_id>>,
                           Returned("skipped", << >>), 0)
            /\ UNCHANGED <<pc, since_id, replies>>
       ELSE /\ since_id' = max(since_id, mention_id)
            /\ LET mention_data == get_status_data(mentions[mention_id])
               IN \/ /\ mention_data = "None"
                     /\ ret' = Call("run_bot", "bot", <<mention_id>>,
                                    Returned("no data", << >>), 0)
                     /\ UNCHANGED <<pc, replies>>
                  \/ /\ mention_data = "raise"
                     /\ ret' = Call("run_bot", "bot", <<mention_id>>,
                                    Raised("KeyError"), 0)
                     /\ pc' = "raised"
                     /\ UNCHANGED replies
                  \/ /\ mention_data = "dict"
                     \* reply_to_the_tweet: update_status succeeds or not
                     /\ \E outcome \in {Returned("int", <<mention_id>>),
                                        Returned("None", << >>)} :
                            ret' = Call("reply_to_the_tweet", "bot",
                                        <<mention_id>>, outcome, 0)
                     /\ replies' = [id \in DOMAIN replies \cup {mention_id} |->
                                       IF id = mention_id
                                       THEN Replies(id) + 1 ELSE replies[id]]
                     /\ UNCHANGED pc
    /\ UNCHANGED <<mentions, already_replied_mentions>>
    /\ UNCHANGED modelvars

\* the cursor is exhausted: sleep, then the next round
Sleep ==
    /\ pc = "items"
    /\ items = {}
    /\ pc' = "cursor"
    /\ ret' = Call("time.sleep", "bot", << >>, Returned("None", << >>), 0)
    /\ UNCHANGED <<mentions, since_id, already_replied_mentions, items, replies>>
    /\ UNCHANGED modelvars

NextRun ==
    \/ \E id \in MentionIds, tweet \in Tweets : Post(id, tweet)
    \/ RunBot
    \/ MentionsTimeline
    \/ \E mention_id \in MentionIds : Mention(mention_id)
    \/ Sleep

SpecRun == InitRun /\ [][NextRun]_vars

\* ------------------------------------------------------------------------
\* What the properties are stated with
\* ------------------------------------------------------------------------
Tokens == {"a", "b", "c", " ", "<", ">"}

\* the token sequence of an utterance: its characters, between ngram_size - 1
\* start tokens and as many end tokens when the model pads
TokenSequence(m, utterance) ==
    LET k == m.ngram_size - 1
    IN IF m.pad_utterances
       THEN [i \in 1..(Len(utterance) + 2 * k) |->
                IF i <= k THEN "<"
                ELSE IF i <= k + Len(utterance) THEN utterance[i - k] ELSE ">"]
       ELSE utterance

\* the stride-1 windows of length ngram_size of the token sequence
Windows(m, utterance) ==
    LET tokens == TokenSequence(m, utterance)
        count == IF Len(tokens) >= m.ngram_size
                 THEN Len(tokens) - m.ngram_size + 1 ELSE 0
    IN [i \in 1..count |-> SubSeq(tokens, i, i + m.ngram_size - 1)]

Range(f) == {f[x] : x \in DOMAIN f}

\* the lines of a training file, stripped
StrippedLines(sentences_file) == {Strip(line) : line \in Range(sentences_file)}

\* the distinct next tokens of a count table
Vocabulary(counter) == UNION {DOMAIN counter[c] : c \in DOMAIN counter}

\* contexts to ask about: the seen ones, those of the utterances, an unseen one
ProbeContexts(m) ==
    DOMAIN m.ngram_counter
        \cup {Context(g) : g \in UNION {Range(Windows(m, u)) : u \in Utterances}}
        \cup {Repeat("c", m.ngram_size - 1)}

ProbeNgrams(m) == {Append(c, t) : c \in ProbeContexts(m), t \in Tokens}

\* C5: get_ngrams yields exactly the stride-1 windows of length ngram_size of
\* the token sequence (the characters, padded with ngram_size - 1 "<" and ">"
\* when pad_utterances), in order; a sequence of length L >= ngram_size has
\* L - ngram_size + 1 windows, and assign_logprob scores that many n-grams.
C5_SlidingWindows ==
    /\ \A u \in Utterances \cup StrippedLines(train_file) :
           /\ get_ngrams(lm, u) = Windows(lm, u)
           /\ Len(TokenSequence(lm, u)) >= lm.ngram_size
                  => Len(get_ngrams(lm, u)) = Len(TokenSequence(lm, u)) - lm.ngram_size + 1
    /\ (ret.call = "assign_logprob" /\ ret.outcome.kind = "float")
           => ret.calls = Len(Windows(lm, ret.arg))

\* ngram_size 3, padded "ab": the four windows (<,<,a) (<,a,b) (a,b,>) (b,>,>)
C5_Witness ==
    /\ ret.call = "assign_logprob"
    /\ ret.arg = <<"a", "b">>
    /\ ret.outcome.kind = "float"
    /\ lm.ngram_size = 3 /\ lm.pad_utterances
    /\ ret.calls = 4
    /\ get_ngrams(lm, ret.arg) =
           << <<"<", "<", "a">>, <<"<", "a", "b">>, <<"a", "b", ">">>, <<"b", ">", ">">> >>

\* C6: when the (possibly padded) utterance is shorter than ngram_size,
\* get_ngrams is empty and assign_logprob returns False, raising nothing and
\* calling ngram_probability not once, trained or not.
C6_ShortUtterance ==
    /\ \A u \in Utterances :
           Len(TokenSequence(lm, u)) < lm.ngram_size
               => /\ get_ngrams(lm, u) = << >>
                  /\ assign_logprob(lm, u).ret = Returned("False", << >>)
                  /\ assign_logprob(lm, u).calls = 0
    /\ (ret.call = "assign_logprob"
            /\ Len(TokenSequence(lm, ret.arg)) < lm.ngram_size)
           => ret.outcome.kind = "False" /\ ret.calls = 0

\* an untrained model was asked for the score of a too short utterance
C6_Witness ==
    /\ ret.call = "assign_logprob"
    /\ estimates = 0
    /\ lm.denominator_smoother = None
    /\ Len(ret.arg) > 0
    /\ Len(TokenSequence(lm, ret.arg)) < lm.ngram_size
    /\ ret.outcome.kind = "False"

\* the outcome of ngram_probability on a model
Probability(m, ngram) == ngram_probability(m, ngram).ret

\* C3 as claimed: on every trained model ngram_probability returns a value
\* greater than 0 for every n-gram, whether its context and token were seen.
C3_AlwaysPositive ==
    estimates >= 1
        => \A ngram \in ProbeNgrams(lm) :
               /\ Probability(lm, ngram).kind = "float"
               /\ Positive(Probability(lm, ngram).value[1])

\* C3 as amended: on every trained model whose denominator_smoother is not 0
\* ngram_probability returns a value greater than 0 for every n-gram; when
\* denominator_smoother is 0 (the last estimate call saw no n-gram) it does so
\* for the seen contexts and raises ZeroDivisionError for the unseen ones.
C3_PositiveUnlessNoVocabulary ==
    estimates >= 1
        => \A ngram \in ProbeNgrams(lm) :
               IF ~IsZero(lm.denominator_smoother)
                      \/ Context(ngram) \in DOMAIN lm.ngram_counter
               THEN /\ Probability(lm, ngram).kind = "float"
                    /\ Positive(Probability(lm, ngram).value[1])
               ELSE Probability(lm, ngram).kind = "ZeroDivisionError"

\* a trained model scored an utterance with an unseen token and unseen contexts
C3_Witness ==
    /\ estimates >= 1
    /\ ~IsZero(lm.denominator_smoother)
    /\ ret.call = "assign_logprob"
    /\ ret.arg = <<"c", "a">>
    /\ ret.outcome.kind = "float"
    /\ \E c \in DOMAIN lm.ngram_counter :
           Positive(Probability(lm, Append(c, "c")).value[1])

RECURSIVE RatSum(_, _)
RatSum(f, keys) ==
    IF keys = {} THEN Rat(0, 1)
    ELSE LET k == CHOOSE x \in keys : TRUE IN RatPlus(f[k], RatSum(f, keys \ {k}))

\* C4: on every trained model and for every context the probabilities of
\* the tokens of the vocabulary sum to 1: the numerators count + smooth sum
\* to the denominator total + denominator_smoother (0 = 0 for an empty
\* vocabulary).
C4_SumsToOne ==
    estimates >= 1
        => LET V == Vocabulary(lm.ngram_counter)
           IN \A c \in ProbeContexts(lm) :
                  IF V = {}
                  THEN IsZero(lm.denominator_smoother)
                  ELSE /\ \A t \in V : Probability(lm, Append(c, t)).kind = "float"
                       /\ RatSum([t \in V |-> Probability(lm, Append(c, t)).value[1]], V)
                              = One

\* the count of a context and a token, 0 when the table holds none
CountOf(counter, ngram) ==
    Get(Get(counter, Context(ngram), EmptyDict), NextToken(ngram), 0)

\* the windows of the stripped lines of a file that equal an n-gram
Occurrences(m, sentences_file, ngram) ==
    UNION {{<<l, i>> : i \in {j \in DOMAIN Windows(m, Strip(sentences_file[l])) :
                                 Windows(m, Strip(sentences_file[l]))[j] = ngram}} :
              l \in DOMAIN sentences_file}

TableNgrams(counter) ==
    UNION {{Append(c, t) : t \in DOMAIN counter[c]} : c \in DOMAIN counter}

FileNgrams(m, sentences_file) ==
    UNION {Range(Windows(m, Strip(sentences_file[l]))) : l \in DOMAIN sentences_file}

Permuted(sentences_file, p) == [i \in DOMAIN sentences_file |-> sentences_file[p[i]]]

\* the model as constructed, before any estimate call
Untrained(m) == NGramLanguageModel(m.language, m.pad_utterances, m.ngram_size, m.smooth)

\* C9: after estimate on a freshly constructed model every count is the
\* number of windows (context, token) of the stripped lines, every stored
\* count is at least 1, and every permutation of the lines gives the same
\* count table and denominator_smoother.
C9_CountsAreWindowCounts ==
    estimates = 1
        => /\ \A ngram \in TableNgrams(lm.ngram_counter) \cup FileNgrams(lm, train_file) :
                  CountOf(lm.ngram_counter, ngram)
                      = Cardinality(Occurrences(lm, train_file, ngram))
           /\ \A ngram \in TableNgrams(lm.ngram_counter) :
                  CountOf(lm.ngram_counter, ngram) >= 1
           /\ \A c \in DOMAIN lm.ngram_counter : DOMAIN lm.ngram_counter[c] # {}
           /\ \A p \in Permutations(DOMAIN train_file) :
                  LET again == estimate(Untrained(lm), Permuted(train_file, p))
                  IN /\ again.ngram_counter = lm.ngram_counter
                     /\ again.denominator_smoother = lm.denominator_smoother

\* a file of several lines was counted, one n-gram more than once
C9_Witness ==
    /\ estimates = 1
    /\ Len(train_file) >= 2
    /\ \E i, j \in DOMAIN train_file : train_file[i] # train_file[j]
    /\ \E ngram \in TableNgrams(lm.ngram_counter) : CountOf(lm.ngram_counter, ngram) >= 2

\* C10: after any number of estimate calls denominator_smoother is smooth
\* times the number of distinct next tokens of the count table.
C10_SmootherMatchesCounts ==
    estimates >= 1
        => lm.denominator_smoother
               = IntTimes(Cardinality(Vocabulary(lm.ngram_counter)), lm.smooth)

\* the outcome of assign_logprob on a model
Score(m, utterance) == assign_logprob(m, utterance).ret

\* the last call loaded the saved document, whole, into the other model
LoadedSavedModel ==
    /\ ret.call = "load_model"
    /\ ret.outcome.kind = "None"
    /\ file = save_model(lm)

\* C1: a model loaded from the file that save_model wrote for a trained
\* model has the count table and the five hyperparameters of that model, and
\* gives every utterance the same score.
C1_RoundTrip ==
    LoadedSavedModel
        => /\ fresh.ngram_counter = lm.ngram_counter
           /\ fresh.language = lm.language
           /\ fresh.pad_utterances = lm.pad_utterances
           /\ fresh.denominator_smoother = lm.denominator_smoother
           /\ fresh.smooth = lm.smooth
           /\ fresh.ngram_size = lm.ngram_size
           /\ \A u \in Utterances : Score(fresh, u) = Score(lm, u)

\* C7: a load_model call that fails on a document without one of the five
\* metadata fields leaves every field of the model as it was.
C7_FailedLoadChangesNothing ==
    [][(ret'.call = "load_model" /\ ret'.outcome.kind = "KeyError") => fresh' = fresh]_vars

\* C8: a scoring call changes no field of the model it scores, trained or
\* loaded, no ngram_probability call adds an entry to the count table, and
\* the same call made again on the model it leaves returns the same value.
C8_ScoringReadsOnly ==
    /\ [](\A m \in {lm, fresh} : \A ngram \in ProbeNgrams(m) :
              ngram_probability(m, ngram).ngram_counter = m.ngram_counter)
    /\ [][ret'.call = "assign_logprob"
              => /\ lm' = lm
                 /\ fresh' = fresh
                 /\ ret'.outcome = IF ret'.on = "lm" THEN Score(lm', ret'.arg)
                                    ELSE Score(fresh', ret'.arg)]_vars

\* a loaded model scored an utterance whose token and contexts it never saw
C8_Witness ==
    /\ ret.call = "assign_logprob"
    /\ ret.on = "fresh"
    /\ ret.arg = <<"c", "a">>
    /\ ret.outcome.kind = "float"
    /\ fresh.ngram_counter # EmptyDict
    /\ \E g \in Range(get_ngrams(fresh, ret.arg)) :
           Context(g) \notin DOMAIN fresh.ngram_counter

\* the models whose score of a text no other model's score exceeds
Maximal(models, text) ==
    {i \in DOMAIN models :
        \A j \in DOMAIN models :
            ~ScoreLess(ScoreNumber(Score(models[i], text)),
                       ScoreNumber(Score(models[j], text)))}

IdentifiedLanguage ==
    /\ ret.call = "language_identifier"
    /\ ret.outcome.kind = "language"

\* C2 as claimed: language_identifier returns the tag of a model with the
\* greatest score, and of the first loaded one among those that tie.
C2_FirstLoadedWins ==
    IdentifiedLanguage
        => ret.outcome.value[1]
               = ngram_models[SetMin(Maximal(ngram_models, ret.arg))].language

\* C2 as amended: language_identifier returns the tag of a model with the
\* greatest score, and the greatest tag, in the order of strings, among the
\* models that tie on it, wherever they stand in the list.
C2_GreatestTagWins ==
    IdentifiedLanguage
        => LET tied == Maximal(ngram_models, ret.arg)
               tag == ret.outcome.value[1]
           IN /\ \E i \in tied : ngram_models[i].language = tag
              /\ \A i \in tied :
                     \/ ngram_models[i].language = tag
                     \/ /\ tag # None
                        /\ ngram_models[i].language # None
                        /\ TagRank(ngram_models[i].language) < TagRank(tag)

\* two models with different tags tie on the greatest score, the one with
\* the greater tag loaded after the other
C2_Witness ==
    /\ IdentifiedLanguage
    /\ \E i, j \in Maximal(ngram_models, ret.arg) :
           /\ i < j
           /\ Score(ngram_models[i], ret.arg).kind = "float"
           /\ Score(ngram_models[j], ret.arg).kind = "float"
           /\ ngram_models[i].language # ngram_models[j].language
           /\ ret.outcome.value[1] = ngram_models[j].language

\* C11: when pad_utterances is true, get_ngrams yields at least one n-gram
\* for every ngram_size >= 1 and every utterance, the empty one included, so
\* a scoring call on a padded model never returns the False sentinel.
C11_PaddedNeverEmpty ==
    (ret.call = "assign_logprob" /\ ret.on = "lm" /\ lm.pad_utterances)
        => /\ Len(get_ngrams(lm, ret.arg)) >= 1
           /\ ret.outcome.kind # "False"

\* C12: within one run of run_bot a reply is attempted at most once for a
\* mention id, never for an id of the already-replied set computed when the
\* run started, and since_id never decreases.
C12_ReplyAtMostOnce ==
    [][ pc # "constructed" =>
          /\ since_id' >= since_id
          /\ \A id \in MentionIds :
                Replies(id)' > Replies(id)
                    => /\ Replies(id) = 0
                       /\ Replies(id)' = 1
                       /\ id \notin already_replied_mentions ]_vars

\* a later round: the cursor is created from the id of a mention replied to
\* once, which it therefore does not give again, and it gives a mention of
\* the already-replied set that would otherwise be replied to
C12_Witness ==
    /\ ret.call = "mentions_timeline"
    /\ \E id \in DOMAIN replies :
          /\ replies[id] = 1
          /\ ret.arg = <<id>>
          /\ id \notin items
    /\ \E id \in items :
          /\ id \in already_replied_mentions
          /\ get_status_data(mentions[id]) = "dict"

====
